---- MODULE Spec2Model ----
(***************************************************************************)
(* Model of the acquisition pipeline of the FamilySearch web-search        *)
(* server: RateLimiter and RetryHandler (rate_limiter.py) and the          *)
(* FamilySearchWebSearcher / search_familysearch_records entry points      *)
(* (server.py).                                                            *)
(*                                                                         *)
(* Time is the value of time.time(), in whole seconds.  The float          *)
(* quantities of the code (min_delay, base_delay, max_delay, wait times)   *)
(* are modelled by integers; the configured requests_per_minute values     *)
(* are drawn from divisors of 60, so that 60.0 / requests_per_minute is    *)
(* exact.                                                                  *)
(***************************************************************************)
EXTENDS Integers, Sequences, FiniteSets, TLC

(* ---------------------------- bounds ----------------------------------- *)
\* largest requests_per_minute / requests_per_hour a limiter is built with
MaxRpm == 2
MaxRph == 2
\* number of tasks that call acquire() on the shared limiter
NumTasks == 2
\* total number of acquire() calls made on the shared limiter
MaxCalls == 3
\* largest max_retries, base_delay and max_delay a RetryHandler is built with
MaxRetries == 2
MaxBaseDelay == 2
MaxDelayCap == 4
\* number of search calls made, and the largest max_retries of the settings
NumSearches == 2
MaxSearchRetries == 1
\* value of time.time() when the model starts (the epoch clock is far from 0)
StartTime == 100
\* number of get_stats() calls made
MaxStats == 2
\* merge_search_results: the length of the longest list merged
MaxResults == 3
\* records-router: the most results in the answer of search_census_records
MaxPayload == 2

(* ------------------------ program constants ---------------------------- *)
MinuteWindow == 60
HourWindow == 3600

VARIABLES
    now,        \* time.time()
    mode,       \* "sequential": every acquire() is awaited before the next
                \* one is made; "concurrent": tasks interleave at the sleeps;
                \* "unused": no task calls acquire() on rl
    rl,         \* the RateLimiter object the tasks share
    acq,        \* acq[t]: where task t stands inside acquire()
    grants,     \* history: one entry per return of acquire()
    failures,   \* history: number of acquire() calls that raised
    stats,      \* the latest get_stats() call on rl: what it returned, and
                \* (history) when it was made, how many calls were made and
                \* how many timestamps it removed
    rh,         \* the RetryHandler object
    rx,         \* the execute_with_retry call in progress: its locals
    op_calls,   \* history: the outcome of every invocation of func
    sleeps,     \* history: the delay of every backoff sleep
    settings,   \* config.settings
    searchers,  \* the FamilySearchWebSearcher objects
    inv,        \* inv[i]: the i-th search call and where it stands
    upstream,   \* history: the HTTP requests sent upstream
    entry,      \* the entry point the callers use: "tool" is
                \* search_familysearch_records, "method" is the method
                \* search_records of one searcher
    router,     \* records-router: "collecting" the results of the
                \* providers, "merged" once merge_search_results has run,
                \* "unused"
    all_results,    \* records-router: the results collected so far
    merged_results, \* records-router: what merge_search_results returned
    rs          \* records-router: the search_records call in progress,
                \* its arguments and locals, and (history) the upstream
                \* calls it made and those that failed

limiterVars == <<mode, rl, acq, grants, failures, stats>>
retryVars == <<rh, rx, op_calls, sleeps>>
searchVars == <<settings, searchers, inv, upstream, entry>>
routerVars == <<router, all_results, merged_results, rs>>
vars == <<now, limiterVars, retryVars, searchVars, routerVars>>

Min(a, b) == IF a <= b THEN a ELSE b
Max(a, b) == IF a >= b THEN a ELSE b

(* ============================== strings ================================ *)
\* Strings are sequences of characters.
\* str.strip(): the whitespace around the text removed
RECURSIVE StripLeft(_)
StripLeft(x) ==
    IF x # << >> /\ Head(x) = " " THEN StripLeft(Tail(x)) ELSE x

RECURSIVE StripRight(_)
StripRight(x) ==
    IF x # << >> /\ x[Len(x)] = " "
    THEN StripRight(SubSeq(x, 1, Len(x) - 1)) ELSE x

Strip(x) == StripRight(StripLeft(x))

\* the first word of a string that begins with one
RECURSIVE FirstWord(_)
FirstWord(x) ==
    IF x = << >> \/ Head(x) = " " THEN << >>
    ELSE <<Head(x)>> \o FirstWord(Tail(x))

\* str.split(): the words between the whitespace
RECURSIVE Split(_)
Split(x) ==
    LET y == StripLeft(x) IN
    IF y = << >> THEN << >>
    ELSE <<FirstWord(y)>> \o Split(SubSeq(y, Len(FirstWord(y)) + 1, Len(y)))

UpperCase ==
    << "A", "B", "C", "D", "E", "F", "G", "H", "I", "J", "K", "L", "M",
       "N", "O", "P", "Q", "R", "S", "T", "U", "V", "W", "X", "Y", "Z" >>
LowerCase ==
    << "a", "b", "c", "d", "e", "f", "g", "h", "i", "j", "k", "l", "m",
       "n", "o", "p", "q", "r", "s", "t", "u", "v", "w", "x", "y", "z" >>

\* str.lower()
LowerChar(c) ==
    IF \E i \in DOMAIN UpperCase : UpperCase[i] = c
    THEN LowerCase[CHOOSE i \in DOMAIN UpperCase : UpperCase[i] = c]
    ELSE c
Lower(x) == [ i \in DOMAIN x |-> LowerChar(x[i]) ]

\* The length of the longest common subsequence of two strings, by rows:
\* row[j + 1] is the length for the characters of a read so far and the
\* first j characters of b.
RECURSIVE LcsRow(_, _, _, _)
LcsRow(prev, c, b, row) ==
    IF Len(row) = Len(b) + 1 THEN row
    ELSE LET j == Len(row) IN
         LcsRow(prev, c, b,
                Append(row, IF c = b[j] THEN prev[j] + 1
                            ELSE Max(prev[j + 1], row[j])))

RECURSIVE LcsRows(_, _, _)
LcsRows(a, b, prev) ==
    IF a = << >> THEN prev[Len(b) + 1]
    ELSE LcsRows(Tail(a), b, LcsRow(prev, Head(a), b, <<0>>))

Lcs(a, b) == LcsRows(a, b, [ j \in 1..(Len(b) + 1) |-> 0 ])

\* rapidfuzz fuzz.ratio: 100 * 2 * lcs / (len + len), in whole points
FuzzRatio(a, b) ==
    IF Len(a) + Len(b) = 0 THEN 100
    ELSE (200 * Lcs(a, b)) \div (Len(a) + Len(b))

(* ============================ RateLimiter ============================== *)

\* RateLimiter.__init__
NewRateLimiter(rpm, rph) ==
    [ requests_per_minute |-> rpm,
      requests_per_hour   |-> rph,
      minute_window       |-> MinuteWindow,
      hour_window         |-> HourWindow,
      minute_requests     |-> << >>,
      hour_requests       |-> << >>,
      min_delay           |-> IF rpm > 0 THEN 60 \div rpm ELSE 0,
      last_request_time   |-> 0 ]

\* the while loops of _cleanup_old_requests: popleft while the head is old
RECURSIVE PopOld(_, _, _)
PopOld(q, current_time, window) ==
    IF q # << >> /\ current_time - Head(q) >= window
    THEN PopOld(Tail(q), current_time, window)
    ELSE q

\* RateLimiter._cleanup_old_requests
CleanupOldRequests(l, current_time) ==
    [ l EXCEPT
        !.minute_requests = PopOld(l.minute_requests, current_time, l.minute_window),
        !.hour_requests   = PopOld(l.hour_requests, current_time, l.hour_window) ]

\* (mutant) get_stats() counts itself as a request
GetStatsRecording(l, current_time) ==
    LET c == CleanupOldRequests(l, current_time)
        r == [ c EXCEPT !.minute_requests = Append(@, current_time),
                        !.hour_requests = Append(@, current_time),
                        !.last_request_time = current_time ]
    IN [ lim |-> r,
         report |-> [ minute_requests |-> Len(r.minute_requests),
                      hour_requests   |-> Len(r.hour_requests),
                      minute_limit    |-> r.requests_per_minute,
                      hour_limit      |-> r.requests_per_hour ] ]

\* RateLimiter.get_stats: the limiter after the call, and the dict returned
GetStats(l, current_time) ==
    LET c == CleanupOldRequests(l, current_time) IN
    [ lim |-> c,
      report |-> [ minute_requests |-> Len(c.minute_requests),
                   hour_requests   |-> Len(c.hour_requests),
                   minute_limit    |-> c.requests_per_minute,
                   hour_limit      |-> c.requests_per_hour ] ]

\* what a piece of acquire() ends in: a suspension in asyncio.sleep, the
\* return of acquire(), or an exception
Suspended(l, where, until) == [ lim |-> l, pc |-> where, wake |-> until ]
Granted(l) == [ lim |-> l, pc |-> "granted", wake |-> 0 ]
Raised(l) == [ lim |-> l, pc |-> "IndexError", wake |-> 0 ]

\* (mutant) an await between the two appends: the timestamp is in the
\* per-minute sequence and not yet in the per-hour sequence
RecordRequestMinuteFirst(l, current_time) ==
    [ l EXCEPT
        !.minute_requests   = Append(l.minute_requests, current_time),
        !.last_request_time = current_time ]

\* acquire(): "Record this request" (the timestamp recorded is current_time,
\* the value read on entry)
RecordRequest(l, current_time) ==
    [ l EXCEPT
        !.minute_requests   = Append(l.minute_requests, current_time),
        !.hour_requests     = Append(l.hour_requests, current_time),
        !.last_request_time = current_time ]

\* acquire(): "Ensure minimum delay between requests", then the record
SpacingCheck(l, current_time, clock) ==
    LET time_since_last == current_time - l.last_request_time IN
    IF time_since_last < l.min_delay
    THEN Suspended(l, "delay_sleep", clock + (l.min_delay - time_since_last))
    ELSE Granted(RecordRequest(l, current_time))

\* (mutant) the code after the sleep for the minimum delay sleeps again
AfterSpacingSleepsAgain(l, current_time, clock) ==
    Suspended(l, "delay_sleep", clock)

\* acquire(): the code that follows the sleep for the minimum delay
AfterSpacing(l, current_time, clock) ==
    Granted(RecordRequest(l, current_time))

\* acquire(): the hourly check, and what follows it when it does not sleep
HourCheck(l, current_time, clock) ==
    IF Len(l.hour_requests) >= l.requests_per_hour
    THEN IF l.hour_requests = << >>
         THEN Raised(l)     \* hour_requests[0] of an empty deque
         ELSE LET wait_time == l.hour_window - (current_time - l.hour_requests[1]) IN
              IF wait_time > 0
              THEN Suspended(l, "hour_sleep", clock + wait_time)
              ELSE SpacingCheck(l, current_time, clock)
    ELSE SpacingCheck(l, current_time, clock)

\* acquire(): the per-minute check, and what follows it when it does not sleep
MinuteCheck(l, current_time, clock) ==
    IF Len(l.minute_requests) >= l.requests_per_minute
    THEN IF l.minute_requests = << >>
         THEN Raised(l)     \* minute_requests[0] of an empty deque
         ELSE LET wait_time == l.minute_window - (current_time - l.minute_requests[1]) IN
              IF wait_time > 0
              THEN Suspended(l, "minute_sleep", clock + wait_time)
              ELSE HourCheck(l, current_time, clock)
    ELSE HourCheck(l, current_time, clock)

\* acquire() from its entry to its first suspension (or its end)
AcquireEntry(l, clock) ==
    MinuteCheck(CleanupOldRequests(l, clock), clock, clock)

(* ============================ RetryHandler ============================= *)
\* What an invocation of func ends in: a returned value (ok) or a raised
\* exception; what is the value, or the class of the exception; serial tells
\* the objects of different invocations apart.
Values == {"r1", "r2"}
ErrorKinds == {"transient", "permanent"}
Returned(v, n) == [ ok |-> TRUE, what |-> v, serial |-> n ]
Exception(kind, n) == [ ok |-> FALSE, what |-> kind, serial |-> n ]
NoOutcome == [ ok |-> FALSE, what |-> "None", serial |-> 0 ]
NoneValue == [ ok |-> TRUE, what |-> "None", serial |-> 0 ]

RECURSIVE Pow(_, _)
Pow(b, e) == IF e <= 0 THEN 1 ELSE b * Pow(b, e - 1)

\* RetryHandler.__init__
NewRetryHandler(max_retries, base_delay, max_delay) ==
    [ max_retries |-> max_retries,
      base_delay  |-> base_delay,
      max_delay   |-> max_delay ]

\* a loop that makes max_retries tries in all
AttemptRangeWithoutFirstTry(h) == h.max_retries

\* execute_with_retry: "for attempt in range(self.max_retries + 1)"
AttemptRange(h) == h.max_retries + 1

\* execute_with_retry: "if attempt < self.max_retries"
MayRetry(h, attempt) == attempt < h.max_retries

\* a backoff that is not capped
BackoffDelayUncapped(h, attempt) == h.base_delay * Pow(2, attempt)

\* execute_with_retry: "delay = min(base_delay * (2 ** attempt), max_delay)"
BackoffDelay(h, attempt) == Min(h.base_delay * Pow(2, attempt), h.max_delay)

\* an except clause that keeps the first exception it saw
KeepFirstException(last_exception, e) ==
    IF last_exception.what = "None" THEN e ELSE last_exception

\* execute_with_retry: "last_exception = e"
KeepException(last_exception, e) == e

\* execute_with_retry: the loop reaches the iteration `attempt`, or is over
\* and the function ends without a return statement
LoopAt(h, x, attempt) ==
    IF attempt < AttemptRange(h)
    THEN [ x EXCEPT !.pc = "attempting", !.attempt = attempt ]
    ELSE [ x EXCEPT !.pc = "returned", !.result = NoneValue ]

\* execute_with_retry from its entry to the first invocation of func
RetryEntry(h) ==
    LoopAt(h, [ pc |-> "idle", attempt |-> 0, last_exception |-> NoOutcome,
                wake |-> 0, result |-> NoOutcome ], 0)

\* an await of func whose value is dropped
OnReturnValueDropped(x, o) == [ x EXCEPT !.pc = "returned", !.result = NoneValue ]

\* execute_with_retry: "return await func(*args, **kwargs)"
OnReturn(x, o) == [ x EXCEPT !.pc = "returned", !.result = o ]

\* execute_with_retry: the except clause
OnException(h, x, e, clock) ==
    LET last_exception == KeepException(x.last_exception, e) IN
    IF MayRetry(h, x.attempt)
    THEN [ x EXCEPT !.pc = "sleeping",
                    !.last_exception = last_exception,
                    !.wake = clock + BackoffDelay(h, x.attempt) ]
    ELSE [ x EXCEPT !.pc = "raised",
                    !.last_exception = last_exception,
                    !.result = last_exception ]

\* execute_with_retry: what follows the await of func
AfterAttempt(h, x, o, clock) ==
    IF o.ok THEN OnReturn(x, o) ELSE OnException(h, x, o, clock)

(* --------------- one call of execute_with_retry ------------------------ *)
NotCalled == [ pc |-> "idle", attempt |-> 0, last_exception |-> NoOutcome,
               wake |-> 0, result |-> NoOutcome ]

\* the outcomes the next invocation of func can have
Outcomes ==
    { Returned(v, Len(op_calls) + 1) : v \in Values }
    \cup { Exception(k, Len(op_calls) + 1) : k \in ErrorKinds }

\* execute_with_retry(func) is called
ExecuteWithRetry ==
    /\ rx.pc = "idle"
    /\ rx' = RetryEntry(rh)
    /\ UNCHANGED <<now, limiterVars, rh, op_calls, sleeps, searchVars, routerVars>>

\* func is invoked and returns or raises
Attempt ==
    /\ rx.pc = "attempting"
    /\ \E o \in Outcomes :
          /\ op_calls' = Append(op_calls, o)
          /\ rx' = AfterAttempt(rh, rx, o, now)
          /\ sleeps' = IF rx'.pc = "sleeping"
                       THEN Append(sleeps, rx'.wake - now) ELSE sleeps
    /\ UNCHANGED <<now, limiterVars, rh, searchVars, routerVars>>

\* the backoff sleep is over: the next iteration of the loop
BackoffOver ==
    /\ rx.pc = "sleeping"
    /\ now >= rx.wake
    /\ rx' = LoopAt(rh, rx, rx.attempt + 1)
    /\ UNCHANGED <<now, limiterVars, rh, op_calls, sleeps, searchVars, routerVars>>

(* ====================== FamilySearchWebSearcher ======================== *)
\* Strings are sequences of characters.  None, the value of an Optional
\* field that is not given, is NoneField (no string: "None" is no character).
NoneField == <<"None">>
NoYear == << >>

DigitChars == <<"0", "1", "2", "3", "4", "5", "6", "7", "8", "9">>

\* str(n) of an int
RECURSIVE IntStr(_)
IntStr(n) ==
    IF n < 0 THEN <<"-">> \o IntStr(0 - n)
    ELSE IF n < 10 THEN <<DigitChars[n + 1]>>
    ELSE IntStr(n \div 10) \o <<DigitChars[(n % 10) + 1]>>

\* the text an f-string puts for an Optional[str] / Optional[int] field
FormatStr(x) == IF x = NoneField THEN <<"N", "o", "n", "e">> ELSE x
FormatInt(y) == IF y = NoYear THEN <<"N", "o", "n", "e">> ELSE IntStr(y[1])

\* SearchRequest (year_range defaults to None and is read nowhere)
SearchRequest(given_name, surname, year, location, record_type, max_results) ==
    [ given_name  |-> given_name,
      surname     |-> surname,
      year        |-> year,
      location    |-> location,
      record_type |-> record_type,
      max_results |-> max_results ]

\* search_records: "Generate cache key"
CacheKey(r) ==
    FormatStr(r.given_name) \o <<"_">> \o FormatStr(r.surname) \o <<"_">>
    \o FormatInt(r.year) \o <<"_">> \o FormatStr(r.location) \o <<"_">>
    \o FormatStr(r.record_type) \o <<"_">> \o IntStr(r.max_results)

\* A response body is the sequence of its elements: "a" and "b" are result
\* containers, the container "x" holds no link and is skipped by the parser,
\* and "garbage" is anything that is no result container.
HasLink(container) == container # "x"
IsContainer(element) == element # "garbage"

\* soup.find_all("div", class_=...): the result containers of the body
ResultContainers(body) == SelectSeq(body, IsContainer)

\* a body that is not the expected result markup
Malformed(body) == body # << >> /\ ResultContainers(body) = << >>

\* (mutant) every container is parsed, whatever max_results
ParseAllContainers(body, max_results) ==
    SelectSeq(ResultContainers(body), HasLink)

\* _parse_search_results: the first max_results containers, those without a
\* link skipped
ParseSearchResults(body, max_results) ==
    LET result_containers == ResultContainers(body) IN
    SelectSeq(SubSeq(result_containers, 1,
                     Min(max_results, Len(result_containers))), HasLink)

\* FamilySearchWebSearcher.__init__
NewSearcher(cfg) ==
    [ rate_limiter  |-> NewRateLimiter(cfg.requests_per_minute,
                                       cfg.requests_per_hour),
      retry_handler |-> NewRetryHandler(cfg.max_retries, cfg.retry_delay,
                                        cfg.retry_backoff * cfg.max_retries),
      cache         |-> << >>,
      cache_ttl     |-> cfg.cache_ttl ]

\* the cache with (results, current_time) stored under key
CacheStore(cache, key, results, current_time) ==
    [ k \in DOMAIN cache \cup {key} |->
        IF k = key THEN [ results |-> results, cache_time |-> current_time ]
        ELSE cache[k] ]

\* the cache with the entry of key deleted
CacheDelete(cache, key) == [ k \in DOMAIN cache \ {key} |-> cache[k] ]

\* search_records: "Check cache": is there an entry that has not expired
CacheHit(sr, key, current_time) ==
    /\ key \in DOMAIN sr.cache
    /\ current_time - sr.cache[key].cache_time < sr.cache_ttl

(* ----------------------- the search calls ------------------------------ *)
Searches == 1..NumSearches

\* The searcher 0 lives as long as the model runs and serves the calls of
\* its method search_records; search_familysearch_records builds a searcher
\* of its own, the i-th call the searcher i.
SearcherOf(i, via) == IF via = "tool" THEN i ELSE 0

NotStarted ==
    [ pc |-> "new", via |-> "tool", request |-> << >>, current_time |-> 0,
      x |-> NotCalled, acq_time |-> 0, wake |-> 0, result |-> NoOutcome,
      after |-> {}, after_failed |-> {}, acquires |-> 0, requests |-> 0,
      ended |-> 0, malformed |-> FALSE ]

\* a step of a search call: the searcher and the call after it, and whether
\* it sent an HTTP request
Step(sr, iv, sent) == [ sr |-> sr, iv |-> iv, sent |-> sent ]

\* (mutant) the exception raised by execute_with_retry is cached as a result
SettleCachingFailures(sr, iv) ==
    IF iv.x.pc \in {"returned", "raised"}
    THEN Step([ sr EXCEPT !.cache = CacheStore(sr.cache, CacheKey(iv.request),
                                               iv.x.result.what, iv.current_time) ],
              [ iv EXCEPT !.pc = IF iv.x.pc = "returned" THEN "done" ELSE "failed",
                          !.result = iv.x.result ], FALSE)
    ELSE Step(sr, [ iv EXCEPT !.pc = "backoff" ], FALSE)

\* (mutant) the results are stored only when the key has no entry: of the
\* calls with one key the first to return fills the cache
SettleKeepingFirst(sr, iv) ==
    IF iv.x.pc = "returned"
    THEN Step([ sr EXCEPT !.cache =
                  IF CacheKey(iv.request) \in DOMAIN sr.cache THEN sr.cache
                  ELSE CacheStore(sr.cache, CacheKey(iv.request),
                                  iv.x.result.what, iv.current_time) ],
              [ iv EXCEPT !.pc = "done", !.result = iv.x.result ], FALSE)
    ELSE IF iv.x.pc = "raised"
    THEN Step(sr, [ iv EXCEPT !.pc = "failed", !.result = iv.x.result ], FALSE)
    ELSE Step(sr, [ iv EXCEPT !.pc = "backoff" ], FALSE)

\* search_records after execute_with_retry has returned or raised, or has
\* gone to sleep: "Cache the results" and return, or the exception goes on
\* to the caller
Settle(sr, iv) ==
    IF iv.x.pc = "returned"
    THEN Step([ sr EXCEPT !.cache = CacheStore(sr.cache, CacheKey(iv.request),
                                               iv.x.result.what, iv.current_time) ],
              [ iv EXCEPT !.pc = "done", !.result = iv.x.result ], FALSE)
    ELSE IF iv.x.pc = "raised"
    THEN Step(sr, [ iv EXCEPT !.pc = "failed", !.result = iv.x.result ], FALSE)
    ELSE Step(sr, [ iv EXCEPT !.pc = "backoff" ], FALSE)

\* _perform_search after a piece of acquire(): the request is sent once
\* acquire() has returned
AfterAcquire(sr, iv, r, current_time, clock) ==
    LET sr1 == [ sr EXCEPT !.rate_limiter = r.lim ] IN
    IF r.pc = "granted"
    THEN Step(sr1, [ iv EXCEPT !.pc = "http", !.acquires = iv.acquires + 1,
                               !.requests = iv.requests + 1 ], TRUE)
    ELSE IF r.pc = "IndexError"
    THEN Settle(sr1, [ iv EXCEPT !.x = AfterAttempt(sr.retry_handler, iv.x,
                                          Exception("IndexError", iv.x.attempt + 1),
                                          clock) ])
    ELSE Step(sr1, [ iv EXCEPT !.pc = r.pc, !.acq_time = current_time,
                               !.wake = r.wake ], FALSE)

\* (mutant) acquire() is awaited before the first attempt only
RunAttemptAcquireOnce(sr, iv, clock) ==
    IF iv.x.pc = "attempting"
    THEN IF iv.x.attempt = 0
         THEN AfterAcquire(sr, iv, AcquireEntry(sr.rate_limiter, clock), clock, clock)
         ELSE Step(sr, [ iv EXCEPT !.pc = "http", !.requests = iv.requests + 1 ], TRUE)
    ELSE Settle(sr, iv)

\* execute_with_retry(_perform_search) at the head of its loop: the next
\* attempt begins with "await self.rate_limiter.acquire()"
RunAttempt(sr, iv, clock) ==
    IF iv.x.pc = "attempting"
    THEN AfterAcquire(sr, iv, AcquireEntry(sr.rate_limiter, clock), clock, clock)
    ELSE Settle(sr, iv)

\* (mutant) the entry that answers the query is dropped from the cache
ReturnCachedAndDrop(sr, iv, key) ==
    Step([ sr EXCEPT !.cache = CacheDelete(sr.cache, key) ],
         [ iv EXCEPT !.pc = "done",
                     !.result = Returned(sr.cache[key].results, 0) ], FALSE)

\* search_records: "Returning cached result"
ReturnCached(sr, iv, key) ==
    Step(sr, [ iv EXCEPT !.pc = "done",
                         !.result = Returned(sr.cache[key].results, 0) ], FALSE)

\* search_records from its entry to its first suspension
SearchRecordsEntry(sr, iv, clock) ==
    LET key == CacheKey(iv.request) IN
    IF CacheHit(sr, key, clock)
    THEN ReturnCached(sr, iv, key)
    ELSE LET sr1 == [ sr EXCEPT !.cache = CacheDelete(sr.cache, key) ] IN
         RunAttempt(sr1, [ iv EXCEPT !.x = RetryEntry(sr.retry_handler) ], clock)

\* acquire() resumed after one of its sleeps
AcquireResumed(l, pc, current_time, clock) ==
    IF pc = "minute_sleep" THEN HourCheck(l, current_time, clock)
    ELSE IF pc = "hour_sleep" THEN SpacingCheck(l, current_time, clock)
    ELSE AfterSpacing(l, current_time, clock)

\* where a call that is over stands
Over == {"done", "failed", "cancelled"}

\* (mutant) the cancelled call leaves a timestamp in the per-minute sequence
OnCancelHalfRecorded(sr, iv) ==
    Step([ sr EXCEPT !.rate_limiter.minute_requests = Append(@, iv.current_time) ],
         [ iv EXCEPT !.pc = "cancelled",
                     !.result = Exception("CancelledError", 0) ], FALSE)

\* CancelledError is raised at the await where the task is suspended; it is
\* no Exception, so that execute_with_retry does not catch it, and it goes
\* through search_records to the caller
OnCancel(sr, iv) ==
    Step(sr, [ iv EXCEPT !.pc = "cancelled",
                         !.result = Exception("CancelledError", 0) ], FALSE)

\* the locals of a call that is over are gone
Ended(iv) ==
    IF iv.pc \in Over
    THEN [ iv EXCEPT !.x = NotCalled, !.acq_time = 0, !.wake = 0,
                     !.result = [ iv.result EXCEPT !.serial = 0 ] ]
    ELSE iv

\* the effect of a step of the search call i; the searcher built by
\* search_familysearch_records is dropped when the call is over
Take(i, st) ==
    /\ searchers' = [ searchers EXCEPT ![SearcherOf(i, st.iv.via)] =
                        IF st.iv.via = "tool" /\ st.iv.pc \in Over
                        THEN NewSearcher(settings) ELSE st.sr ]
    /\ inv' = [ inv EXCEPT ![i] =
                  [ Ended(st.iv) EXCEPT
                      !.ended = IF st.iv.pc \in Over THEN now ELSE 0 ] ]
    /\ upstream' = IF st.sent
                   THEN upstream \cup {[ at |-> now, by |-> i, n |-> st.iv.requests ]}
                   ELSE upstream
    /\ UNCHANGED <<now, limiterVars, retryVars, settings, entry, routerVars>>

\* the awaits where a search call is suspended
AwaitPoints == {"minute_sleep", "hour_sleep", "delay_sleep", "backoff", "http"}

\* (mutant) the sleeps keep the event loop, as time.sleep would
HoldsLoopInSleep(iv) == iv.pc \in AwaitPoints \ {"http"}

\* A call holds the event loop only while it runs from one await to the
\* next: every sleep of acquire() and the backoff sleep are "await
\* asyncio.sleep(...)", which hands the loop to the other tasks.
HoldsLoop(iv) == iv.pc \notin AwaitPoints \cup {"unused", "new"} \cup Over

\* the event loop can run a step of the call i
LoopFree(i) == \A k \in Searches \ {i} : ~HoldsLoop(inv[k])

\* the requests the callers make
Requests ==
    { SearchRequest(<<"J">>, <<"S">>, <<1850>>, NoneField, NoneField, 1),
      SearchRequest(<<"T">>, <<"S">>, NoYear, NoneField, <<"c">>, 20),
      SearchRequest(<<"T", " ">>, <<"S">>, NoYear, NoneField, <<"c">>, 20),
      SearchRequest(<<"T">>, <<"S">>, NoYear, <<"N", "o", "n", "e">>, <<"c">>, 20) }

\* the bodies the upstream answers with
Bodies == { <<"a", "b">>, <<"x", "b">>, <<"garbage">> }

\* the query a searcher may have answered before the calls of the model
EarlierRequest == SearchRequest(<<"J">>, <<"S">>, <<1850>>, NoneField, NoneField, 1)

\* the searcher after search_records(EarlierRequest) has fetched, parsed and
\* stored the body <<"a", "b">>, all at the time clock
AfterEarlierCall(cfg, clock) ==
    LET sr == NewSearcher(cfg) IN
    [ sr EXCEPT !.rate_limiter = AcquireEntry(sr.rate_limiter, clock).lim,
                !.cache = CacheStore(sr.cache, CacheKey(EarlierRequest),
                                     ParseSearchResults(<<"a", "b">>,
                                                        EarlierRequest.max_results),
                                     clock) ]

\* search_familysearch_records (via "tool") or searcher.search_records (via
\* "method") is called
SearchCall(i) ==
    /\ inv[i].pc = "new"
    /\ \A j \in Searches : j < i => inv[j].pc # "new"
    /\ LoopFree(i)
    /\ \E via \in {entry}, req \in Requests :
          LET sr == IF via = "tool" THEN NewSearcher(settings)
                    ELSE searchers[0]
              iv == [ NotStarted EXCEPT
                        !.via = via, !.request = req, !.current_time = now,
                        !.after = { j \in Searches : inv[j].pc = "done" },
                        !.after_failed = { j \in Searches : inv[j].pc = "failed" } ]
          IN Take(i, SearchRecordsEntry(sr, iv, now))

\* a sleep of acquire() is over
SearchAcquireWake(i) ==
    /\ inv[i].pc \in {"minute_sleep", "hour_sleep", "delay_sleep"}
    /\ now >= inv[i].wake
    /\ LoopFree(i)
    /\ LET sr == searchers[SearcherOf(i, inv[i].via)] IN
       Take(i, AfterAcquire(sr, inv[i],
                            AcquireResumed(sr.rate_limiter, inv[i].pc,
                                           inv[i].acq_time, now),
                            inv[i].acq_time, now))

\* the upstream answers the request, or the request fails
HttpResponse(i) ==
    /\ inv[i].pc = "http"
    /\ LoopFree(i)
    /\ LET sr == searchers[SearcherOf(i, inv[i].via)]
           n == inv[i].x.attempt + 1
           answers ==
               { [ o |-> Returned(ParseSearchResults(b, inv[i].request.max_results), n),
                   malformed |-> Malformed(b) ] : b \in Bodies }
               \cup { [ o |-> Exception(k, n), malformed |-> FALSE ] :
                        k \in ErrorKinds }
       IN \E a \in answers :
             Take(i, Settle(sr, [ inv[i] EXCEPT
                                    !.x = AfterAttempt(sr.retry_handler, inv[i].x,
                                                       a.o, now),
                                    !.malformed = a.malformed ]))

\* the backoff sleep is over: the next attempt
SearchBackoffOver(i) ==
    /\ inv[i].pc = "backoff"
    /\ now >= inv[i].x.wake
    /\ LoopFree(i)
    /\ LET sr == searchers[SearcherOf(i, inv[i].via)] IN
       Take(i, RunAttempt(sr, [ inv[i] EXCEPT
                                  !.x = LoopAt(sr.retry_handler, inv[i].x,
                                               inv[i].x.attempt + 1) ],
                          now))

(* =========================== records-router =========================== *)
\* A result is a dict with the keys name, fsId, confidence and provider;
\* name and fsId are strings (sequences of characters), the confidence is
\* counted in hundredths.
Result(name, fsId, confidence, provider) ==
    [ name |-> name, fsId |-> fsId, confidence |-> confidence,
      provider |-> provider ]

\* a key that a dict does not have, and a value that is not a string
Absent == <<"absent">>
NotAString == <<"int">>

\* dict.get(key, default)
Get(value, default) == IF value = Absent THEN default ELSE value

\* merge_search_results: "Create a unique key for deduplication"
MergeKey(result) ==
    Get(result.name, << >>) \o <<"_">> \o Get(result.fsId, << >>)

\* merge_search_results: the loop over the results, with the keys seen and
\* the list merged so far
RECURSIVE Deduplicate(_, _, _)
Deduplicate(results, seen, merged) ==
    IF results = << >> THEN merged
    ELSE LET result == Head(results)
             key == MergeKey(result)
         IN IF key \notin seen
            THEN Deduplicate(Tail(results), seen \cup {key}, Append(merged, result))
            ELSE Deduplicate(Tail(results), seen, merged)

\* (mutant) an element goes before the elements of its own confidence
RECURSIVE InsertBeforeEquals(_, _)
InsertBeforeEquals(sorted, result) ==
    IF sorted = << >> THEN <<result>>
    ELSE IF Head(sorted).confidence > result.confidence
    THEN <<Head(sorted)>> \o InsertBeforeEquals(Tail(sorted), result)
    ELSE <<result>> \o sorted

\* list.sort(key=confidence, reverse=True) is stable: an element goes
\* behind the elements whose confidence is at least its own
RECURSIVE InsertByConfidence(_, _)
InsertByConfidence(sorted, result) ==
    IF sorted = << >> THEN <<result>>
    ELSE IF Head(sorted).confidence >= result.confidence
    THEN <<Head(sorted)>> \o InsertByConfidence(Tail(sorted), result)
    ELSE <<result>> \o sorted

RECURSIVE SortByConfidence(_)
SortByConfidence(list) ==
    IF list = << >> THEN << >>
    ELSE InsertByConfidence(SortByConfidence(SubSeq(list, 1, Len(list) - 1)),
                            list[Len(list)])

\* merge_search_results
merge_search_results(results) ==
    SortByConfidence(Deduplicate(results, {}, << >>))

\* the results the providers answer with
Names ==
    { <<"J", "o", "h", "n", " ", "S", "m", "i", "t", "h">>,
      <<"J", "o", "n", " ", "S", "m", "i", "t", "h">>,
      <<"J", "a", "n", "e", " ", "D", "o", "e">> }
FsIds == { <<"X", "1">>, <<"X", "2">> }
Confidences == {50, 90}
Providers == {"familysearch", "ancestry"}

\* search_records: a result of a provider is added to all_results
CollectResult ==
    /\ router = "collecting"
    /\ Len(all_results) < MaxResults
    /\ \E n \in Names, f \in FsIds, c \in Confidences, p \in Providers :
          all_results' = Append(all_results, Result(n, f, c, p))
    /\ UNCHANGED <<router, merged_results, rs>>
    /\ UNCHANGED <<now, limiterVars, retryVars, searchVars>>

\* search_records: "Merge and deduplicate results"
MergeResults ==
    /\ router = "collecting"
    /\ merged_results' = merge_search_results(all_results)
    /\ router' = "merged"
    /\ UNCHANGED <<all_results, rs>>
    /\ UNCHANGED <<now, limiterVars, retryVars, searchVars>>

(* ---------------- records-router: search_records ---------------------- *)
\* calculate_confidence, in hundredths as it would be without "/ 100.0"
\* (mutant)
ConfidenceNotScaled(query, result) ==
    LET name == Get(result.name, << >>) IN
    IF name = << >> THEN 0
    ELSE 100 * FuzzRatio(Lower(query), Lower(name))

\* calculate_confidence, in hundredths (name is a string here)
calculate_confidence(query, result) ==
    LET name == Get(result.name, << >>) IN
    IF name = << >> THEN 0
    ELSE FuzzRatio(Lower(query), Lower(name))

\* a result as search_records builds it
TypedResult(name, fsId, confidence, type) ==
    [ name |-> name, fsId |-> fsId, confidence |-> confidence,
      provider |-> "familysearch", type |-> type ]

\* The answer of the MCP server to call_tool: the request raises (the
\* server is unreachable, or answers with an error status), or the JSON
\* holds under "content" a list or a dict.
Unreachable == [ raised |-> TRUE, kind |-> "list", items |-> << >>,
                 title |-> Absent, id |-> Absent ]
ListContent(items) == [ raised |-> FALSE, kind |-> "list", items |-> items,
                        title |-> Absent, id |-> Absent ]
DictContent(title, id) == [ raised |-> FALSE, kind |-> "dict", items |-> << >>,
                            title |-> title, id |-> id ]

\* call_familysearch_api: the content, [] when the request raised
call_familysearch_api(answer) ==
    IF answer.raised THEN ListContent(<< >>) ELSE answer

\* bool(content)
Truthy(content) == content.kind = "dict" \/ content.items # << >>

CollectionPrefix ==
    << "C", "o", "l", "l", "e", "c", "t", "i", "o", "n", ":", " " >>
TreePrefix ==
    << "F", "a", "m", "i", "l", "y", " ", "T", "r", "e", "e", ":", " " >>
RecordsPrefix ==
    << "R", "e", "c", "o", "r", "d", "s", ":", " " >>
UnknownTitle == <<"U", "n", "k", "n", "o", "w", "n">>
TreeTitle ==
    << "F", "a", "m", "i", "l", "y", "S", "e", "a", "r", "c", "h", " ",
       "F", "a", "m", "i", "l", "y", " ", "T", "r", "e", "e" >>
RecordsTitle ==
    << "F", "a", "m", "i", "l", "y", "S", "e", "a", "r", "c", "h", " ",
       "H", "i", "s", "t", "o", "r", "i", "c", "a", "l", " ", "R", "e",
       "c", "o", "r", "d", "s" >>

\* search_records, "1. Try collections info": one result per collection;
\* iterating a dict yields its keys, strings, and .get of a string raises
\* into the except clause
RECURSIVE CollectionResults(_)
CollectionResults(items) ==
    IF items = << >> THEN << >>
    ELSE <<TypedResult(CollectionPrefix \o Get(Head(items).title, UnknownTitle),
                       Get(Head(items).id, << >>), 80, "collection_info")>>
         \o CollectionResults(Tail(items))

AfterCollections(results, collections) ==
    IF Truthy(collections) /\ collections.kind = "list"
    THEN results \o CollectionResults(collections.items)
    ELSE results

\* search_records, "2. Try tree info" and "3. Try records info": one
\* result when the content is a dict; .get of a list raises into the
\* except clause
AfterInfo(results, info, prefix, title, id, type) ==
    IF Truthy(info) /\ info.kind = "dict"
    THEN Append(results, TypedResult(prefix \o Get(info.title, title),
                                     Get(info.id, id), 90, type))
    ELSE results

\* search_records, "4. Try actual search": the loop over the results of
\* search_census_records; .lower() of a name that is not a string raises
\* into the except clause, which ends the loop
RECURSIVE SearchResults(_, _)
SearchResults(query, items) ==
    IF items = << >> \/ Head(items).name = NotAString THEN << >>
    ELSE <<TypedResult(Head(items).name, Head(items).fsId,
                       calculate_confidence(query, Head(items)),
                       "search_result")>>
         \o SearchResults(query, Tail(items))

AfterSearch(results, query, search_results) ==
    IF Truthy(search_results) /\ search_results.kind = "list"
    THEN results \o SearchResults(query, search_results.items)
    ELSE results

\* the first provider from the place at on that search_records knows
RECURSIVE SkipProviders(_, _)
SkipProviders(providers, at) ==
    IF at <= Len(providers) /\ providers[at] # "familysearch"
    THEN SkipProviders(providers, at + 1)
    ELSE at

\* search_records at the head of its loop over the providers, the place at
\* being the next: the first call of the next provider it knows, or the
\* merge and the return
RouterAt(r, all, at) ==
    LET a == SkipProviders(r.providers, at)
        r1 == [ r EXCEPT !.at = a, !.results = << >> ]
    IN IF a > Len(r.providers)
       THEN [ rs |-> r1, all |-> all, pc |-> "returned",
              merged |-> merge_search_results(all) ]
       ELSE [ rs |-> r1, all |-> all, pc |-> "collections", merged |-> << >> ]

\* "all_results.extend(results)", and on to the next provider
ProviderDone(r, all) == RouterAt(r, all \o r.results, r.at + 1)

\* the upstream call of the tool is made by the call r and answered
Called(r, tool, answer) ==
    [ r EXCEPT !.called = @ \cup {tool},
               !.failed = IF answer.raised THEN @ \cup {tool} ELSE @ ]

NoSearch ==
    [ query |-> << >>, providers |-> << >>, at |-> 0, results |-> << >>,
      called |-> {}, failed |-> {} ]

RouterTake(st) ==
    /\ rs' = st.rs
    /\ all_results' = st.all
    /\ router' = st.pc
    /\ merged_results' = st.merged
    /\ UNCHANGED <<now, limiterVars, retryVars, searchVars>>

\* the arguments of search_records
Queries ==
    { <<"J", "o", "h", "n", " ", "S", "m", "i", "t", "h">>,
      <<"J", "o", "h", "n">> }
ProviderLists ==
    { <<"familysearch">>, <<"ancestry">>, <<"ancestry", "familysearch">> }

\* the answers of the MCP server
Collection(title, id) == [ title |-> title, id |-> id ]
CollectionsAnswers ==
    { Unreachable, ListContent(<< >>),
      ListContent(<<Collection(<<"C">>, <<"1">>)>>),
      ListContent(<<Collection(Absent, Absent)>>),
      DictContent(<<"C">>, <<"1">>) }
InfoAnswers ==
    { Unreachable, ListContent(<< >>), DictContent(<<"T">>, Absent),
      ListContent(<<Collection(<<"T">>, <<"1">>)>>) }
UpstreamResults ==
    { [ name |-> n, fsId |-> f ] :
        n \in Names \cup {Absent, NotAString}, f \in FsIds }
    \cup { [ name |-> <<"J", "a", "n", "e", " ", "D", "o", "e", "_", "X", "2">>,
            fsId |-> <<"X", "1">> ],
          [ name |-> <<"J", "a", "n", "e", " ", "D", "o", "e">>,
            fsId |-> <<"X", "2", "_", "X", "1">> ] }
SearchAnswers ==
    { Unreachable }
    \cup { ListContent(items) :
             items \in UNION { [1..n -> UpstreamResults] : n \in 0..MaxPayload } }

\* search_records is called: it runs to its first upstream call
RouterSearchCall ==
    /\ router = "idle"
    /\ \E query \in Queries, providers \in ProviderLists :
          RouterTake(RouterAt([ NoSearch EXCEPT !.query = query,
                                               !.providers = providers ],
                              << >>, 1))

\* get_familysearch_collections is answered
CollectionsResponse ==
    /\ router = "collections"
    /\ \E answer \in CollectionsAnswers :
          LET r == Called(rs, "get_familysearch_collections", answer) IN
          RouterTake([ rs |-> [ r EXCEPT !.results =
                                  AfterCollections(@, call_familysearch_api(answer)) ],
                       all |-> all_results, pc |-> "tree_info",
                       merged |-> << >> ])

\* get_familysearch_tree_info is answered
TreeInfoResponse ==
    /\ router = "tree_info"
    /\ \E answer \in InfoAnswers :
          LET r == Called(rs, "get_familysearch_tree_info", answer) IN
          RouterTake([ rs |-> [ r EXCEPT !.results =
                                  AfterInfo(@, call_familysearch_api(answer),
                                            TreePrefix, TreeTitle,
                                            <<"F", "S", "F", "T">>, "tree_info") ],
                       all |-> all_results, pc |-> "records_info",
                       merged |-> << >> ])

\* get_familysearch_records_info is answered; the search is made when the
\* query has two words or more
RecordsInfoResponse ==
    /\ router = "records_info"
    /\ \E answer \in InfoAnswers :
          LET r == Called(rs, "get_familysearch_records_info", answer)
              r1 == [ r EXCEPT !.results =
                        AfterInfo(@, call_familysearch_api(answer),
                                  RecordsPrefix, RecordsTitle,
                                  <<"F", "S", "H", "R", "A">>, "records_info") ]
          IN IF Len(Split(rs.query)) >= 2
             THEN RouterTake([ rs |-> r1, all |-> all_results, pc |-> "search",
                               merged |-> << >> ])
             ELSE RouterTake(ProviderDone(r1, all_results))

\* search_census_records is answered
SearchResponse ==
    /\ router = "search"
    /\ \E answer \in SearchAnswers :
          LET r == Called(rs, "search_census_records", answer) IN
          RouterTake(ProviderDone(
              [ r EXCEPT !.results =
                  AfterSearch(@, rs.query, call_familysearch_api(answer)) ],
              all_results))

\* the task of the search call is cancelled while it is suspended in a sleep
\* of acquire(), in the backoff sleep or in the HTTP request
CancelSearch(i) ==
    /\ inv[i].pc \in AwaitPoints
    /\ LoopFree(i)
    /\ Take(i, OnCancel(searchers[SearcherOf(i, inv[i].via)], inv[i]))

(* -------------------- tasks calling acquire() -------------------------- *)
Tasks == 1..NumTasks

Idle == [ pc |-> "idle", current_time |-> 0, wake |-> 0 ]

InFlight == { t \in Tasks : acq[t].pc # "idle" }

CallsMade == Len(grants) + failures + Cardinality(InFlight)

\* the effect of a piece of acquire() run by task t on the shared limiter
Proceed(t, current_time, r) ==
    /\ rl' = r.lim
    /\ IF r.pc = "granted"
       THEN /\ acq' = [acq EXCEPT ![t] = Idle]
            /\ grants' = Append(grants, [ at |-> now, entered |-> current_time ])
            /\ UNCHANGED failures
       ELSE IF r.pc = "IndexError"
       THEN /\ acq' = [acq EXCEPT ![t] = Idle]
            /\ failures' = failures + 1
            /\ UNCHANGED grants
       ELSE /\ acq' = [acq EXCEPT ![t] = [ pc |-> r.pc,
                                           current_time |-> current_time,
                                           wake |-> r.wake ]]
            /\ UNCHANGED <<grants, failures>>

\* a task calls acquire(): runs to the first sleep or to the return
AcquireCall(t) ==
    /\ acq[t].pc = "idle"
    /\ CallsMade < MaxCalls
    /\ mode = "sequential" => InFlight = {}
    /\ \A u \in Tasks : u < t => u \in InFlight   \* the tasks are interchangeable
    /\ Proceed(t, now, AcquireEntry(rl, now))
    /\ UNCHANGED <<now, mode, stats, retryVars, searchVars, routerVars>>

\* the sleep of the per-minute check is over: on to the hourly check
WakeMinute(t) ==
    /\ acq[t].pc = "minute_sleep"
    /\ now >= acq[t].wake
    /\ Proceed(t, acq[t].current_time, HourCheck(rl, acq[t].current_time, now))
    /\ UNCHANGED <<now, mode, stats, retryVars, searchVars, routerVars>>

\* the sleep of the hourly check is over: on to the minimum delay
WakeHour(t) ==
    /\ acq[t].pc = "hour_sleep"
    /\ now >= acq[t].wake
    /\ Proceed(t, acq[t].current_time, SpacingCheck(rl, acq[t].current_time, now))
    /\ UNCHANGED <<now, mode, stats, retryVars, searchVars, routerVars>>

\* the sleep for the minimum delay is over: record and return
WakeDelay(t) ==
    /\ acq[t].pc = "delay_sleep"
    /\ now >= acq[t].wake
    /\ Proceed(t, acq[t].current_time, AfterSpacing(rl, acq[t].current_time, now))
    /\ UNCHANGED <<now, mode, stats, retryVars, searchVars, routerVars>>

\* no get_stats() call has been made
NoStats ==
    [ n |-> 0, at |-> 0, evicted |-> 0,
      report |-> [ minute_requests |-> 0, hour_requests |-> 0,
                   minute_limit |-> 0, hour_limit |-> 0 ] ]

\* get_stats() is called on the shared limiter; it has no await, and runs
\* at any moment between the steps of the tasks
GetStatsCall ==
    /\ mode # "unused"
    /\ stats.n < MaxStats
    /\ LET r == GetStats(rl, now) IN
       /\ rl' = r.lim
       /\ stats' = [ n |-> stats.n + 1, at |-> now, report |-> r.report,
                     evicted |-> (Len(rl.minute_requests) + Len(rl.hour_requests))
                                 - (Len(r.lim.minute_requests)
                                    + Len(r.lim.hour_requests)) ]
    /\ UNCHANGED <<now, mode, acq, grants, failures, retryVars, searchVars,
                   routerVars>>

(* ------------------------------ clock ---------------------------------- *)
\* the moments ahead at which the limiter's answer changes: the head of a
\* window sequence leaves its window, or the minimum delay since the last
\* recorded request is over
LimiterEvents(l) ==
    (IF l.minute_requests # << >>
     THEN {l.minute_requests[1] + l.minute_window} ELSE {})
    \cup (IF l.hour_requests # << >>
          THEN {l.hour_requests[1] + l.hour_window} ELSE {})
    \cup (IF l.last_request_time > 0
          THEN {l.last_request_time + l.min_delay} ELSE {})

\* the deadlines of the sleeps in progress
SleepDeadlines ==
    { acq[t].wake : t \in InFlight }
    \cup (IF rx.pc = "sleeping" THEN {rx.wake} ELSE {})
    \cup { inv[i].wake : i \in { j \in Searches :
              inv[j].pc \in {"minute_sleep", "hour_sleep", "delay_sleep"} } }
    \cup { inv[i].x.wake : i \in { j \in Searches : inv[j].pc = "backoff" } }

\* a call is in progress or can still be made
CallsAhead ==
    \/ InFlight # {}
    \/ mode # "unused" /\ CallsMade < MaxCalls
    \/ \E i \in Searches : inv[i].pc = "new"

\* the moments at which an entry of a searcher's cache expires
CacheEvents(sr) == { sr.cache[k].cache_time + sr.cache_ttl : k \in DOMAIN sr.cache }

ClockEvents ==
    LimiterEvents(rl)
    \cup UNION { LimiterEvents(searchers[s].rate_limiter) \cup CacheEvents(searchers[s]) :
                   s \in DOMAIN searchers }

\* The event loop resumes a sleeping task when its deadline is reached: time
\* does not pass beyond the deadline of a sleep in progress.
\* time passes until the earliest sleep in progress is over
AdvanceToWake ==
    /\ \E w \in SleepDeadlines :
          /\ w > now
          /\ \A v \in SleepDeadlines : w <= v
          /\ now' = w
    /\ UNCHANGED <<limiterVars, retryVars, searchVars, routerVars>>

\* time passes between the search calls (and at any moment for the tasks
\* calling acquire() themselves) until the answer of a limiter or of a cache
\* changes
AdvanceToEvent ==
    /\ CallsAhead
    /\ \A i \in Searches : inv[i].pc \in {"unused", "new"} \cup Over
    /\ \E e \in ClockEvents :
          /\ e > now
          /\ \A v \in SleepDeadlines : e <= v
          /\ now' = e
    /\ UNCHANGED <<limiterVars, retryVars, searchVars, routerVars>>

(* ------------------------- specifications ------------------------------ *)
\* the limiter and the handler as the searcher builds them by default
LimiterUnused ==
    /\ mode = "unused"
    /\ rl = NewRateLimiter(30, 1000)
    /\ acq = [t \in Tasks |-> Idle]
    /\ grants = << >>
    /\ failures = 0
    /\ stats = NoStats

DefaultSettings ==
    [ requests_per_minute |-> 30, requests_per_hour |-> 1000,
      cache_ttl |-> 3600, max_retries |-> 3, retry_delay |-> 1,
      retry_backoff |-> 2 ]

SearchUnused ==
    /\ settings = DefaultSettings
    /\ searchers = [ s \in 0..NumSearches |-> NewSearcher(settings) ]
    /\ inv = [ i \in Searches |-> [NotStarted EXCEPT !.pc = "unused"] ]
    /\ upstream = {}
    /\ entry = "tool"

RouterUnused ==
    /\ router = "unused"
    /\ all_results = << >>
    /\ merged_results = << >>
    /\ rs = NoSearch

RetryUnused ==
    /\ rh = NewRetryHandler(3, 1, 6)
    /\ rx = [NotCalled EXCEPT !.pc = "unused"]
    /\ op_calls = << >>
    /\ sleeps = << >>

\* tasks calling acquire() on one RateLimiter
InitLimiter ==
    /\ now = StartTime
    /\ mode \in {"sequential", "concurrent"}
    /\ \E rpm \in 0..MaxRpm, rph \in 0..MaxRph : rl = NewRateLimiter(rpm, rph)
    /\ acq = [t \in Tasks |-> Idle]
    /\ grants = << >>
    /\ failures = 0
    /\ stats = NoStats
    /\ RetryUnused
    /\ SearchUnused
    /\ RouterUnused

NextLimiter ==
    \/ \E t \in Tasks : AcquireCall(t)
    \/ \E t \in Tasks : WakeMinute(t)
    \/ \E t \in Tasks : WakeHour(t)
    \/ \E t \in Tasks : WakeDelay(t)
    \/ GetStatsCall
    \/ AdvanceToWake
    \/ AdvanceToEvent

SpecLimiter == InitLimiter /\ [][NextLimiter]_vars

\* The event loop is fair: time advances to the deadline of the earliest
\* sleep, and a task whose sleep is over is resumed.  Nothing obliges a task
\* to call acquire().
LimiterFairness ==
    /\ WF_vars(AdvanceToWake)
    /\ \A t \in Tasks : WF_vars(WakeMinute(t) \/ WakeHour(t) \/ WakeDelay(t))

SpecLimiterFair == SpecLimiter /\ LimiterFairness

\* one call of execute_with_retry on a RetryHandler
InitRetry ==
    /\ now = StartTime
    /\ LimiterUnused
    /\ \E m \in (0 - 1)..MaxRetries, b \in 0..MaxBaseDelay, d \in 0..MaxDelayCap :
          rh = NewRetryHandler(m, b, d)
    /\ rx = NotCalled
    /\ op_calls = << >>
    /\ sleeps = << >>
    /\ SearchUnused
    /\ RouterUnused

NextRetry ==
    \/ ExecuteWithRetry
    \/ Attempt
    \/ BackoffOver
    \/ AdvanceToWake

SpecRetry == InitRetry /\ [][NextRetry]_vars

\* search calls, through search_familysearch_records and through the method
\* search_records of one searcher
Init ==
    /\ now = StartTime
    /\ LimiterUnused
    /\ RetryUnused
    /\ \E rpm \in 1..MaxRpm, m \in 0..MaxSearchRetries :
          settings = [ DefaultSettings EXCEPT !.requests_per_minute = rpm,
                                             !.max_retries = m ]
    /\ entry \in {"tool", "method"}
    /\ \E earlier \in BOOLEAN :
          searchers = [ s \in 0..NumSearches |->
                          IF s = 0 /\ entry = "method" /\ earlier
                          THEN AfterEarlierCall(settings, StartTime)
                          ELSE NewSearcher(settings) ]
    /\ inv = [ i \in Searches |-> NotStarted ]
    /\ upstream = {}
    /\ RouterUnused

Next ==
    \/ \E i \in Searches : SearchCall(i)
    \/ \E i \in Searches : SearchAcquireWake(i)
    \/ \E i \in Searches : HttpResponse(i)
    \/ \E i \in Searches : SearchBackoffOver(i)
    \/ \E i \in Searches : CancelSearch(i)
    \/ AdvanceToWake
    \/ AdvanceToEvent

Spec == Init /\ [][Next]_vars

\* records-router: the results of the providers are collected and merged
InitMerge ==
    /\ now = StartTime
    /\ LimiterUnused
    /\ RetryUnused
    /\ SearchUnused
    /\ router = "collecting"
    /\ all_results = << >>
    /\ merged_results = << >>
    /\ rs = NoSearch

NextMerge ==
    \/ CollectResult
    \/ MergeResults

SpecMerge == InitMerge /\ [][NextMerge]_vars

\* records-router: one call of search_records
InitRouter ==
    /\ now = StartTime
    /\ LimiterUnused
    /\ RetryUnused
    /\ SearchUnused
    /\ router = "idle"
    /\ all_results = << >>
    /\ merged_results = << >>
    /\ rs = NoSearch

NextRouter ==
    \/ RouterSearchCall
    \/ CollectionsResponse
    \/ TreeInfoResponse
    \/ RecordsInfoResponse
    \/ SearchResponse

SpecRouter == InitRouter /\ [][NextRouter]_vars

(* ================== claims about RateLimiter.acquire =================== *)
\* number of grants (returns of acquire) made in the window of the given
\* length that ends with the k-th grant
GrantsInWindow(k, window) ==
    Cardinality({ j \in 1..Len(grants) :
                    /\ grants[j].at > grants[k].at - window
                    /\ grants[j].at <= grants[k].at })

WindowBoundsHold ==
    \A k \in 1..Len(grants) :
        /\ GrantsInWindow(k, MinuteWindow) <= rl.requests_per_minute
        /\ GrantsInWindow(k, HourWindow) <= rl.requests_per_hour

PositiveLimits == rl.requests_per_minute >= 1 /\ rl.requests_per_hour >= 1

\* C1: with acquire() calls made one after another (each awaited before
\* the next) and limits N >= 1, M >= 1, no trailing 60-second window holds
\* more than N grants and no trailing 3600-second window more than M.
C1_SequentialWindowBounds ==
    (mode = "sequential" /\ PositiveLimits) => WindowBoundsHold

\* C2: with N >= 1, any two consecutive grants are made at least 60/N
\* seconds apart.
C2_ConsecutiveGrantSpacing ==
    rl.requests_per_minute >= 1 =>
        \A k \in 1..(Len(grants) - 1) :
            (grants[k + 1].at - grants[k].at) * rl.requests_per_minute >= 60

\* C3: with tasks calling acquire() concurrently on one limiter, in no
\* interleaving are more than N grants made within a trailing 60-second
\* window or more than M within a trailing 3600-second window.
C3_ConcurrentWindowBounds ==
    (mode = "concurrent" /\ PositiveLimits) => WindowBoundsHold

\* C11: under fair scheduling and advancing time every acquire() call that
\* suspends is resumed, suspends no more, and returns granted: a suspended
\* task is eventually out of acquire(), and a task leaves acquire() only
\* through a step that records one more grant and raises nothing.
C11_AcquireEventuallyReturns ==
    /\ \A t \in Tasks : (acq[t].pc # "idle") ~> (acq[t].pc = "idle")
    /\ [][\A t \in Tasks :
            (acq[t].pc # "idle" /\ acq'[t].pc = "idle") =>
                (Len(grants') = Len(grants) + 1 /\ failures' = failures)]_vars

\* a call that slept (twice: for the window and for the minimum delay) has
\* returned, while another task was calling acquire() too
C11_Witness ==
    /\ mode = "concurrent"
    /\ \E k \in 1..Len(grants) :
          grants[k].at - grants[k].entered > MinuteWindow

\* C12: acquire() has no error outcome: for all limits
\* requests_per_minute >= 0, requests_per_hour >= 0 and every reachable
\* limiter state no call of acquire() raises.
C12_AcquireNeverRaises == failures = 0

(* ============ claims about search_familysearch_records ================= *)
\* number of HTTP requests sent in the window of the given length that ends
\* with the request u
UpstreamInWindow(u, window) ==
    Cardinality({ v \in upstream : v.at > u.at - window /\ v.at <= u.at })

\* C4: the per-minute and per-hour bounds hold over the union of the
\* upstream requests made by separate search_familysearch_records
\* invocations, which share one RateLimiter.
C4_BoundsAcrossInvocations ==
    entry = "tool" =>
        \A u \in upstream :
            /\ UpstreamInWindow(u, MinuteWindow) <= settings.requests_per_minute
            /\ UpstreamInWindow(u, HourWindow) <= settings.requests_per_hour

\* C5: the identical query issued a second time through
\* search_familysearch_records, within the TTL of the first answer, gets
\* the same result list and sends no request upstream.
C5_SecondCallFromCache ==
    entry = "tool" =>
        \A i \in Searches : \A j \in inv[i].after :
            ( /\ inv[i].pc = "done"
              /\ inv[j].request = inv[i].request
              /\ inv[i].current_time - inv[j].current_time < settings.cache_ttl )
            => (inv[i].requests = 0 /\ inv[i].result = inv[j].result)


\* C30: the timestamp acquire() appends to both window sequences and stores
\* as last_request_time is the time of the grant, after its waits: after a
\* grant, last_request_time and the last timestamp of each sequence (while
\* it is still there) are the time the latest grant was made at.
C30_RecordedTimeIsGrantTime ==
    grants # << >> =>
        LET granted_at == grants[Len(grants)].at IN
        /\ rl.last_request_time = granted_at
        /\ rl.minute_requests # << >>
           => rl.minute_requests[Len(rl.minute_requests)] = granted_at
        /\ rl.hour_requests # << >>
           => rl.hour_requests[Len(rl.hour_requests)] = granted_at


\* no timestamp of the limiter l has left its window at the time clock
NoExpiredEntries(l, clock) ==
    /\ \A k \in DOMAIN l.minute_requests :
          clock - l.minute_requests[k] < l.minute_window
    /\ \A k \in DOMAIN l.hour_requests :
          clock - l.hour_requests[k] < l.hour_window

\* C31: when acquire() returns (also after it has slept) and when
\* get_stats() returns, every entry of minute_requests is younger than 60 s
\* and every entry of hour_requests younger than 3600 s at that time.
C31_NoExpiredEntriesOnReturn ==
    [][(Len(grants') > Len(grants) \/ stats'.n > stats.n)
       => NoExpiredEntries(rl', now')]_vars


\* C35: in every reachable state, whatever the interleaving of acquire()
\* and get_stats() calls, minute_requests holds at most requests_per_minute
\* timestamps and hour_requests at most requests_per_hour, and get_stats()
\* reports no count above its limit.
C35_SequencesWithinLimits ==
    /\ Len(rl.minute_requests) <= rl.requests_per_minute
    /\ Len(rl.hour_requests) <= rl.requests_per_hour
    /\ stats.report.minute_requests <= stats.report.minute_limit
    /\ stats.report.hour_requests <= stats.report.hour_limit

\* the sequence q is in non-decreasing order
NonDecreasing(q) == \A k \in 1..(Len(q) - 1) : q[k] <= q[k + 1]

\* C36: for every interleaving of acquire() calls the timestamps of each
\* window sequence are in non-decreasing order from head to tail, and
\* last_request_time never decreases.
C36_TimestampsNonDecreasing ==
    /\ [](NonDecreasing(rl.minute_requests) /\ NonDecreasing(rl.hour_requests))
    /\ [][rl'.last_request_time >= rl.last_request_time]_vars

\* the sequence q is a suffix of the sequence r
IsSuffix(q, r) ==
    /\ Len(q) <= Len(r)
    /\ \A k \in DOMAIN q : q[k] = r[Len(r) - Len(q) + k]

\* C37: in every reachable state minute_requests is a suffix of
\* hour_requests.
C37_MinuteSuffixOfHour == IsSuffix(rl.minute_requests, rl.hour_requests)

\* both sequences have lost their head, the minute sequence more of it, and
\* the timestamps are out of order
C37_Witness ==
    /\ Len(grants) > Len(rl.hour_requests)
    /\ Len(rl.hour_requests) > Len(rl.minute_requests)
    /\ rl.minute_requests # << >>
    /\ ~NonDecreasing(rl.hour_requests)


\* C40: get_stats() grants nothing: it appends no timestamp (what is left
\* of each sequence is a suffix of what was there), removes only timestamps
\* that have left their window, leaves last_request_time, the limits and
\* the acquire() calls in progress as they were, and reports the configured
\* limits and the lengths of what is left.
C40_GetStatsGrantsNothing ==
    [][stats'.n > stats.n =>
         /\ IsSuffix(rl'.minute_requests, rl.minute_requests)
         /\ IsSuffix(rl'.hour_requests, rl.hour_requests)
         /\ \A k \in 1..(Len(rl.minute_requests) - Len(rl'.minute_requests)) :
               now - rl.minute_requests[k] >= MinuteWindow
         /\ \A k \in 1..(Len(rl.hour_requests) - Len(rl'.hour_requests)) :
               now - rl.hour_requests[k] >= HourWindow
         /\ rl'.last_request_time = rl.last_request_time
         /\ rl'.requests_per_minute = rl.requests_per_minute
         /\ rl'.requests_per_hour = rl.requests_per_hour
         /\ grants' = grants /\ acq' = acq /\ failures' = failures
         /\ stats'.report.minute_limit = rl.requests_per_minute
         /\ stats'.report.hour_limit = rl.requests_per_hour
         /\ stats'.report.minute_requests = Len(rl'.minute_requests)
         /\ stats'.report.hour_requests = Len(rl'.hour_requests)]_vars

\* get_stats() was called after grants, while an acquire() call was asleep,
\* and removed expired timestamps; some are left
C40_Witness ==
    /\ stats.n > 0
    /\ stats.at = now
    /\ stats.evicted > 0
    /\ stats.report.hour_requests > 0
    /\ InFlight # {}

(* ========= claims about FamilySearchWebSearcher.search_records ========= *)
\* the call i has been answered from the cache
ServedFromCache(i) == inv[i].pc = "done" /\ inv[i].requests = 0

\* no call but i and j has asked a request with the cache key of the call i
OnlyAskers(i, j) ==
    \A k \in Searches \ {i, j} :
        inv[k].pc # "new" => CacheKey(inv[k].request) # CacheKey(inv[i].request)

\* C13: a search_records call that finds an unexpired cache entry for its
\* key returns the results of that entry, with no acquire(), no attempt and
\* no HTTP request, and leaves the limiter and the cache as they were.
C13_CacheHitTouchesNothing ==
    [][\A i \in Searches :
          LET key == CacheKey(inv'[i].request) IN
          ( /\ entry = "method"
            /\ inv[i].pc = "new"
            /\ inv'[i].pc # "new"
            /\ CacheHit(searchers[0], key, now) )
          => /\ inv'[i].pc = "done"
             /\ inv'[i].result.ok
             /\ inv'[i].result.what = searchers[0].cache[key].results
             /\ inv'[i].acquires = 0
             /\ inv'[i].requests = 0
             /\ upstream' = upstream
             /\ searchers' = searchers]_vars

\* a call on the long-lived searcher was answered from the cache
C13_Witness ==
    /\ entry = "method"
    /\ \E i \in Searches : ServedFromCache(i) /\ inv[i].after # {}

\* C14: once a search_records call has stored results under a key, a lookup
\* of the key on the same searcher made less than cache_ttl after the store
\* returns those results; a lookup made cache_ttl or more after the store
\* is a miss.
C14_LookupWithinTtlOfStore ==
    entry = "method" =>
        \A i \in Searches : \A j \in inv[i].after :
            ( /\ inv[j].requests > 0
              /\ inv[i].request = inv[j].request
              /\ OnlyAskers(i, j) )
            => IF inv[i].current_time - inv[j].ended < settings.cache_ttl
               THEN ServedFromCache(i) /\ inv[i].result.what = inv[j].result.what
               ELSE ~ServedFromCache(i)

\* C15: a search_records call whose upstream attempts all fail ends with the
\* exception, the step that ends it writes nothing to any cache, and an
\* identical query made afterwards (nobody else having asked it) is not
\* answered from the cache: it sends a request upstream.
C15_FailureNotCached ==
    /\ [](entry = "method" =>
            \A i \in Searches : \A j \in inv[i].after_failed :
                (inv[i].request = inv[j].request /\ OnlyAskers(i, j))
                => /\ ~ServedFromCache(i)
                   /\ inv[i].pc \in {"done", "failed"} => inv[i].requests > 0)
    /\ [][\A i \in Searches :
            (inv[i].pc # "failed" /\ inv'[i].pc = "failed")
            => /\ ~inv'[i].result.ok
               /\ \A s \in DOMAIN searchers :
                     searchers'[s].cache = searchers[s].cache]_vars

\* after a call that failed, the same query was made again and went upstream
C15_Witness ==
    /\ entry = "method"
    /\ \E i \in Searches : \E j \in inv[i].after_failed :
          /\ inv[i].request = inv[j].request
          /\ inv[j].requests > 0
          /\ inv[i].pc = "done"
          /\ inv[i].requests > 0

Logical(r) ==
    [ r EXCEPT !.given_name = Strip(@), !.surname = Strip(@),
               !.location = Strip(@), !.record_type = Strip(@) ]

\* C17: two requests that are logically identical (they differ only in
\* whitespace around their string fields) get the same cache key.
C17_SameQuerySameKey ==
    \A i, j \in Searches :
        ( /\ inv[i].pc # "new"
          /\ inv[j].pc # "new"
          /\ Logical(inv[i].request) = Logical(inv[j].request) )
        => CacheKey(inv[i].request) = CacheKey(inv[j].request)

(* ============== claims about merge_search_results ====================== *)
\* the similarity ratio of two names, 2 * lcs / (len + len) as fuzz.ratio
\* computes it, is above the threshold 0.90
NearDuplicate(a, b) == 20 * Lcs(a, b) > 9 * (Len(a) + Len(b))

\* the entries of the merged list that carry the identifier
WithFsId(fsId) ==
    { k \in DOMAIN merged_results : merged_results[k].fsId = fsId }

\* C18: of two results with different identifiers, merge_search_results
\* returns exactly one when their names are near-duplicates (similarity
\* above 0.90, as "John Smith" and "Jon Smith") and both when their names
\* are dissimilar (as "John Smith" and "Jane Doe").
C18_NearDuplicateNamesMerged ==
    ( /\ router = "merged"
      /\ Len(all_results) = 2
      /\ all_results[1].fsId # all_results[2].fsId )
    => IF NearDuplicate(all_results[1].name, all_results[2].name)
       THEN /\ Len(merged_results) = 1
            /\ merged_results[1] \in {all_results[1], all_results[2]}
       ELSE Len(merged_results) = 2

\* C19: when two results of the input carry the same fsId, whatever their
\* providers and names, the merged list has exactly one entry with that
\* fsId.
C19_OneEntryPerFsId ==
    router = "merged" =>
        \A i, j \in DOMAIN all_results :
            (i < j /\ all_results[i].fsId = all_results[j].fsId)
            => Cardinality(WithFsId(all_results[i].fsId)) = 1

\* C20: of the duplicates of a result (the results with its name and fsId)
\* the merged list keeps the one with the highest confidence, wherever it
\* stands in the input, and keeps it as it was.
C20_KeepsHigherConfidence ==
    router = "merged" =>
        \A i \in DOMAIN all_results :
            \E k \in DOMAIN merged_results :
                /\ MergeKey(merged_results[k]) = MergeKey(all_results[i])
                /\ merged_results[k].confidence >= all_results[i].confidence
                /\ \E j \in DOMAIN all_results : merged_results[k] = all_results[j]

\* the place of the first result of the input that equals r
FirstIndex(r) ==
    CHOOSE i \in DOMAIN all_results :
        /\ all_results[i] = r
        /\ \A j \in DOMAIN all_results : all_results[j] = r => i <= j

\* C21: the list returned by merge_search_results is in non-increasing
\* order of confidence, and entries of equal confidence stand in the order
\* in which they stand in the input.
C21_SortedByConfidenceStable ==
    router = "merged" =>
        \A k, l \in DOMAIN merged_results :
            k < l =>
                /\ merged_results[k].confidence >= merged_results[l].confidence
                /\ merged_results[k].confidence = merged_results[l].confidence
                      => FirstIndex(merged_results[k]) < FirstIndex(merged_results[l])

\* three results were merged: the last of the input, of the higher
\* confidence, came out first, and the two of equal confidence behind it
C21_Witness ==
    /\ router = "merged"
    /\ Len(all_results) = 3
    /\ Len(merged_results) = 3
    /\ all_results[1].confidence < all_results[3].confidence
    /\ all_results[1].confidence = all_results[2].confidence
    /\ merged_results = <<all_results[3], all_results[1], all_results[2]>>

(* ============ claims about records-router search_records ============== *)
\* the kinds of entry that search_records puts in its answer
ResultTypes == {"collection_info", "tree_info", "records_info", "search_result"}

\* every result collected is in the answer, itself or its duplicate
CollectedReturned ==
    \A i \in DOMAIN all_results :
        \E k \in DOMAIN merged_results :
            MergeKey(merged_results[k]) = MergeKey(all_results[i])

\* C22: when some upstream calls of a search_records call failed and
\* others brought results, the call returns, the results brought are in its
\* answer, and the answer carries an entry that records the failure of the
\* provider (an entry that is not a result).
C22_PartialFailureRecorded ==
    ( /\ router = "returned"
      /\ rs.failed # {}
      /\ all_results # << >> )
    => /\ CollectedReturned
       /\ \E k \in DOMAIN merged_results :
             /\ merged_results[k].provider = "familysearch"
             /\ merged_results[k].type \notin ResultTypes

\* C23: when every upstream call of a search_records call failed, the call
\* does not return an empty list, the answer of a search without matches.
C23_AllFailedNotEmptySuccess ==
    ( /\ router = "returned"
      /\ rs.called # {}
      /\ rs.failed = rs.called )
    => merged_results # << >>

\* C27: every result in the answer of search_records has a confidence
\* between 0 and 1 (0 and 100 hundredths).
C27_ConfidenceInUnitInterval ==
    router = "returned" =>
        \A k \in DOMAIN merged_results :
            /\ merged_results[k].confidence >= 0
            /\ merged_results[k].confidence <= 100

\* the answer holds a search result without a name, of confidence 0, a
\* search result whose name is not the query, and a collection
C27_Witness ==
    /\ router = "returned"
    /\ \E k, l, m \in DOMAIN merged_results :
          /\ merged_results[k].type = "search_result"
          /\ merged_results[k].name = Absent
          /\ merged_results[k].confidence = 0
          /\ merged_results[l].type = "search_result"
          /\ merged_results[l].confidence > 0
          /\ merged_results[l].confidence < 100
          /\ merged_results[m].type = "collection_info"


\* what acquire() records of a grant is recorded whole: a timestamp of the
\* per-minute sequence is in the per-hour sequence, and the last timestamp
\* appended is last_request_time
GrantsRecordedWhole(l) ==
    /\ \A k \in DOMAIN l.minute_requests :
          \E m \in DOMAIN l.hour_requests :
              l.hour_requests[m] = l.minute_requests[k]
    /\ l.hour_requests # << >>
       => l.last_request_time = l.hour_requests[Len(l.hour_requests)]

C25_OthersCanStep ==
    entry = "method" =>
    \A i \in Searches : \A j \in Searches \ {i} :
        inv[i].pc \in AwaitPoints \ {"http"}
        => /\ (inv[j].pc = "new" /\ \A k \in Searches : k < j => inv[k].pc # "new")
              => ENABLED SearchCall(j)
           /\ inv[j].pc = "http" => ENABLED HttpResponse(j)

\* C25: a task suspended in a RateLimiter wait or in a backoff sleep does
\* not block the other tasks: another query on the same searcher can always
\* step; if its key is cached it ends with the cached results in the step
\* of its call, and if the limiter has a slot free its request is sent in
\* that step, whatever the other calls are waiting for.
C25_SuspendedTaskBlocksNobody ==
    /\ []C25_OthersCanStep
    /\ [][\A j \in Searches :
            (entry = "method" /\ inv[j].pc = "new" /\ inv'[j].pc # "new")
            => LET key == CacheKey(inv'[j].request)
                   hit == CacheHit(searchers[0], key, now)
                   free == AcquireEntry(searchers[0].rate_limiter, now).pc = "granted"
               IN /\ hit => inv'[j].pc = "done" /\ inv'[j].result.ok
                  /\ (~hit /\ free) => inv'[j].pc = "http"]_vars

\* while a call is asleep in acquire(), a call made after it was answered
\* from the cache and is over
C25_Witness ==
    /\ entry = "method"
    /\ \E i \in Searches : \E j \in Searches \ {i} :
          /\ inv[i].pc \in {"minute_sleep", "hour_sleep", "delay_sleep"}
          /\ inv[i].wake > now
          /\ ServedFromCache(j)
          /\ inv[j].current_time >= inv[i].current_time

\* while a call is in its backoff sleep, a call made after it found a slot
\* free, sent its request and is over
C25_WitnessFreeSlot ==
    /\ entry = "method"
    /\ \E i \in Searches : \E j \in Searches \ {i} :
          /\ inv[i].pc = "backoff"
          /\ inv[i].x.wake > now
          /\ inv[j].pc = "done"
          /\ inv[j].requests > 0
          /\ inv[j].current_time >= inv[i].current_time
          /\ inv[j].ended < inv[i].x.wake


\* C26: a response body that is not the expected result markup makes
\* search_records fail with a parse failure, which is no network failure;
\* the call does not return a result list.
C26_MalformedBodyIsParseFailure ==
    \A i \in Searches :
        inv[i].malformed
        => /\ inv[i].pc # "done"
           /\ inv[i].pc = "failed"
              => (~inv[i].result.ok /\ inv[i].result.what \notin ErrorKinds)


\* the results r and q carry the same (name, fsId) pair
SamePair(r, q) == r.name = q.name /\ r.fsId = q.fsId

\* C28: the merged list has one entry per distinct (name, fsId) pair of the
\* input: every pair of the input is represented, no pair twice, and every
\* entry is the first result of the input with its pair.
C28_OneEntryPerPair ==
    router = "returned" =>
        /\ \A i \in DOMAIN all_results :
              \E k \in DOMAIN merged_results :
                  SamePair(merged_results[k], all_results[i])
        /\ \A k, l \in DOMAIN merged_results :
              SamePair(merged_results[k], merged_results[l]) => k = l
        /\ \A k \in DOMAIN merged_results :
              \E i \in DOMAIN all_results :
                  /\ merged_results[k] = all_results[i]
                  /\ \A j \in 1..(i - 1) : ~SamePair(all_results[j], all_results[i])


\* C29: whatever the upstream answers, a search that returns has at most
\* max_results results, max_results being in 1..100; so has every list the
\* cache holds under the key of a request, hence every answer served from
\* the cache.
C29_AtMostMaxResults ==
    /\ \A i \in Searches :
          inv[i].pc = "done"
          => /\ inv[i].request.max_results \in 1..100
             /\ Len(inv[i].result.what) <= inv[i].request.max_results
    /\ \A s \in DOMAIN searchers : \A r \in Requests :
          CacheKey(r) \in DOMAIN searchers[s].cache
          => Len(searchers[s].cache[CacheKey(r)].results) <= r.max_results

\* search_familysearch_records(max_results=1) was answered a body of two
\* results and returned one
C29_Witness ==
    /\ entry = "tool"
    /\ \E i \in Searches :
          /\ inv[i].pc = "done"
          /\ inv[i].request.max_results = 1
          /\ inv[i].requests > 0
          /\ inv[i].result.what = <<"a">>

\* a query with max_results = 1 was answered from the cache with one result
C29_WitnessCached ==
    /\ entry = "method"
    /\ \E i \in Searches :
          /\ ServedFromCache(i)
          /\ inv[i].request.max_results = 1
          /\ inv[i].result.what = <<"a">>


\* C38: two requests that differ in a field (given_name, surname, year,
\* location, record_type or max_results) never have the same cache key, so
\* a call answered from the cache gets results that were stored for its own
\* request.
C38_DistinctRequestsDistinctKeys ==
    /\ \A i, j \in Searches :
          ( /\ inv[i].pc # "new"
            /\ inv[j].pc # "new"
            /\ inv[i].request # inv[j].request )
          => CacheKey(inv[i].request) # CacheKey(inv[j].request)
    /\ entry = "method" =>
          \A i \in Searches :
              ServedFromCache(i)
              => \/ inv[i].request = EarlierRequest
                 \/ \E j \in inv[i].after :
                        inv[j].request = inv[i].request /\ inv[j].requests > 0


\* C32: the timestamp stored with a cache entry is the time at which the
\* entry is written, after the upstream call has returned, and the entry
\* written replaces the one the key had.
C32_CacheTimeIsWriteTime ==
    [][\A i \in Searches :
          (entry = "method" /\ inv[i].pc = "http" /\ inv'[i].pc = "done")
          => LET key == CacheKey(inv[i].request)
                 cache == searchers'[0].cache
             IN /\ key \in DOMAIN cache
                /\ cache[key].results = inv'[i].result.what
                /\ cache[key].cache_time = now]_vars


\* the HTTP requests the call i has sent
RequestsOf(i) == { u \in upstream : u.by = i }

\* C33: search_records calls of one searcher with the same cache key are
\* not coalesced.  A call that misses the cache while a call with its key
\* is in progress goes on to its own acquire() and is not answered in that
\* step; a call that was not answered from the cache has acquired a slot
\* for each of its own requests, at least one once it has returned; and a
\* call that returns from its fetch leaves under the key, which has one
\* entry, its own results: the cache holds those of the call that wrote
\* last.
C33_NotCoalesced ==
    /\ [](entry = "method" =>
            \A i \in Searches :
                /\ Cardinality(RequestsOf(i)) = inv[i].requests
                /\ inv[i].acquires >= inv[i].requests
                /\ (inv[i].pc = "done" /\ ~ServedFromCache(i))
                   => inv[i].requests >= 1)
    /\ [][\A i \in Searches : \A j \in Searches \ {i} :
            ( /\ entry = "method"
              /\ inv[j].pc = "new" /\ inv'[j].pc # "new"
              /\ inv[i].pc \in AwaitPoints
              /\ CacheKey(inv[i].request) = CacheKey(inv'[j].request)
              /\ ~CacheHit(searchers[0], CacheKey(inv'[j].request), now) )
            => /\ inv'[j].pc \in AwaitPoints
               /\ inv'[j].result = NoOutcome
               /\ inv'[i] = inv[i]]_vars
    /\ [][\A i \in Searches :
            (entry = "method" /\ inv[i].pc = "http" /\ inv'[i].pc = "done")
            => LET key == CacheKey(inv[i].request) IN
               /\ key \in DOMAIN searchers'[0].cache
               /\ searchers'[0].cache[key].results = inv'[i].result.what
               /\ \A k \in DOMAIN searchers[0].cache \ {key} :
                     /\ k \in DOMAIN searchers'[0].cache
                     /\ searchers'[0].cache[k] = searchers[0].cache[k]]_vars

\* two calls with the same request were in progress together, each sent a
\* request of its own, they returned different results, and the cache
\* holds those of the second to return
C33_Witness ==
    /\ entry = "method"
    /\ \E i \in Searches : \E j \in Searches \ {i} :
          /\ inv[i].pc = "done" /\ inv[j].pc = "done"
          /\ inv[i].request = inv[j].request
          /\ i \notin inv[j].after /\ j \notin inv[i].after
          /\ RequestsOf(i) # {} /\ RequestsOf(j) # {}
          /\ inv[i].result.what # inv[j].result.what
          /\ inv[i].ended < inv[j].ended
          /\ searchers[0].cache[CacheKey(inv[i].request)].results = inv[j].result.what
          /\ Len(searchers[0].rate_limiter.hour_requests) >= 2


\* no limiter can have evicted a timestamp from its hour_requests yet
NothingEvicted == now < StartTime + HourWindow

\* C34: every HTTP request of search_records, first attempt or retry, comes
\* after an acquire() of its own has returned: a call has sent at most as
\* many requests as it has been granted slots, and the requests started on
\* a searcher are at most the grants its limiter has recorded.
C34_RequestsWithinGrants ==
    /\ \A i \in Searches :
          /\ inv[i].requests <= inv[i].acquires
          /\ Cardinality({ u \in upstream : u.by = i }) <= inv[i].acquires
    /\ (entry = "method" /\ NothingEvicted)
       => Cardinality(upstream) <= Len(searchers[0].rate_limiter.hour_requests)
    /\ (entry = "tool" /\ NothingEvicted)
       => \A i \in Searches :
              inv[i].pc \in AwaitPoints
              => inv[i].requests <= Len(searchers[i].rate_limiter.hour_requests)

\* a call has sent its first request and a retry, each after a grant of its
\* own, and its second request is in flight
C34_Witness ==
    /\ entry = "method"
    /\ NothingEvicted
    /\ \E i \in Searches :
          /\ inv[i].pc = "http"
          /\ inv[i].requests = 2
          /\ inv[i].acquires = 2
          /\ Cardinality({ u \in upstream : u.by = i }) = 2
          /\ Len(searchers[0].rate_limiter.hour_requests) >= 2


\* C39: merge_search_results is idempotent: applied to its own output it
\* returns the same entries in the same order.
C39_MergeIdempotent ==
    router = "merged" => merge_search_results(merged_results) = merged_results

\* the merge dropped a duplicate and moved an entry forward
C39_Witness ==
    /\ router = "merged"
    /\ Len(merged_results) < Len(all_results)
    /\ Len(merged_results) > 1
    /\ merged_results # Deduplicate(all_results, {}, << >>)

(* =============== claims about RetryHandler.execute_with_retry ========== *)
Finished == rx.pc \in {"returned", "raised"}

Failed(k) == ~op_calls[k].ok
AlwaysRetryable ==
    \A k \in 1..Len(op_calls) : Failed(k) /\ op_calls[k].what = "transient"
AlwaysFailed == \A k \in 1..Len(op_calls) : Failed(k)

\* C6 (as claimed): an operation that raises a retryable error on every
\* attempt is invoked exactly max_retries times in total (3 by default),
\* after which the call fails.
C6_InvokedMaxRetriesTimes ==
    (Finished /\ AlwaysRetryable /\ rh.max_retries >= 1) =>
        (rx.pc = "raised" /\ Len(op_calls) = rh.max_retries)

\* C6 (amended): for max_retries >= 0, an operation that raises a
\* retryable error on every attempt is invoked exactly max_retries + 1
\* times in total (the first try and max_retries retries), after which the
\* call fails.
C6_InvokedMaxRetriesPlusOneTimes ==
    (AlwaysRetryable /\ rh.max_retries >= 0) =>
        /\ Len(op_calls) <= rh.max_retries + 1
        /\ Finished => (rx.pc = "raised" /\ Len(op_calls) = rh.max_retries + 1)

C6_Witness ==
    /\ rx.pc = "raised"
    /\ AlwaysRetryable
    /\ rh.max_retries = 2
    /\ Len(op_calls) = 3

\* C7: a non-retryable (permanent) failure raised by the operation
\* propagates out of execute_with_retry at once: the call has raised that
\* exception, the operation is not invoked again and no backoff sleep
\* follows the failure.
C7_PermanentFailurePropagates ==
    \A k \in 1..Len(op_calls) :
        (Failed(k) /\ op_calls[k].what = "permanent") =>
            /\ rx.pc = "raised"
            /\ rx.result = op_calls[k]
            /\ Len(op_calls) = k
            /\ Len(sleeps) < k

\* C8: when every attempt fails, execute_with_retry does not return
\* normally, and the exception it raises is the one raised by the final
\* attempt.
C8_RaisesFinalException ==
    (Len(op_calls) >= 1 /\ AlwaysFailed) =>
        /\ rx.pc # "returned"
        /\ rx.pc = "raised" => rx.result = op_calls[Len(op_calls)]

C8_Witness ==
    /\ rx.pc = "raised"
    /\ AlwaysFailed
    /\ Len(op_calls) = 3
    /\ op_calls[1].what = "permanent"
    /\ op_calls[3].what = "transient"
    /\ rx.result = op_calls[3]

\* C9: execute_with_retry returns the value of the first attempt that does
\* not raise and does not invoke the operation after it; every earlier
\* attempt was followed by one sleep, so a first attempt that succeeds
\* means one invocation and no sleep.
C9_ReturnsFirstSuccess ==
    \A k \in 1..Len(op_calls) :
        op_calls[k].ok =>
            /\ rx.pc = "returned"
            /\ rx.result = op_calls[k]
            /\ Len(op_calls) = k
            /\ Len(sleeps) = k - 1

C9_Witness ==
    /\ rx.pc = "returned"
    /\ Len(op_calls) = 2
    /\ Failed(1)
    /\ rx.result = op_calls[2]
    /\ rx.result.what \in Values

\* C10: the sleep before the k-th retry is min(base_delay * 2^(k-1),
\* max_delay); the delays are non-decreasing and none exceeds max_delay.
C10_BackoffDelays ==
    \A k \in 1..Len(sleeps) :
        /\ sleeps[k] = Min(rh.base_delay * 2^(k - 1), rh.max_delay)
        /\ sleeps[k] <= rh.max_delay
        /\ k > 1 => sleeps[k - 1] <= sleeps[k]

C10_Witness ==
    /\ Len(sleeps) = 2
    /\ sleeps[1] = rh.base_delay
    /\ sleeps[1] < sleeps[2]
    /\ sleeps[2] = rh.max_delay
    /\ rh.base_delay * 2 > rh.max_delay

====
